---- MODULE Spec2Model ----
(***************************************************************************)
(* Arduino REPL firmware (tui00/arduino-repl): the command buffer and      *)
(* dispatch loop of main.cpp / commands.cpp together with the cooperative  *)
(* software-PWM scheduler of soft_pwm.cpp.                                  *)
(*                                                                         *)
(* The firmware is single threaded: loop() runs to completion, so one      *)
(* iteration of loop() is one action (Loop).  The host is the environment: *)
(* it puts bytes into the serial receive queue (HostSend, HostSendCmd).    *)
(* millis() is sampled once per iteration of loop().                       *)
(***************************************************************************)
EXTENDS Integers, Sequences, FiniteSets, TLC

(***************************************************************************)
(* config.h                                                                *)
(***************************************************************************)
VERSION == 1
INFO == <<65, 114, 100, 117, 105, 110, 111, 32, 82, 69, 80, 76, 32, 118, 49, 46, 48, 0>>
COMMANDS_COUNT == 8
SUCCESS_CODE == 255
ERROR_CODE == 254
BUFFER_SIZE == 10
MAX_SOFT_PWM == 6
SOFT_PWM_FREQ == 50
TOTAL_RAM == 2048
FLASH_SIZE == 32256
CPU_FREQ == 16000000
HARDWARE_PWM_PINS == <<3, 5, 6, 9, 10, 11>>
DIGITAL_PINS == 14
TOTAL_PINS == 22

\* First analog pin of the board the configuration describes (14 digital
\* pins, 22 pins in all: A0 is physical pin 14).
A0 == 14

(***************************************************************************)
(* commands.h                                                              *)
(***************************************************************************)
CMD_NOP == 0
CMD_INFO == 1
CMD_DIGITALREAD == 2
CMD_DIGITALWRITE == 3
CMD_ANALOGREAD == 4
CMD_ANALOGWRITE == 5
CMD_PINMODE == 6
CMD_RESET == 7

LOW == 0
HIGH == 1

(***************************************************************************)
(* Bounds of the model                                                     *)
(***************************************************************************)
\* Bytes the host sends in one behaviour of Spec.
MaxSent == 3
\* Bytes the host sends in one behaviour of SpecBusy.
MaxSentBusy == 4
\* Capacity of the serial receive queue the host may fill between two
\* iterations of loop().
MaxRx == 6
\* Last clock reading explored.
MaxTime == 20
\* Commands that stop a channel (analog-write with duty cycle 0 and
\* digital-write) in one behaviour of SpecCmd.
MaxStops == 2
\* Calls that stop a channel (setPWM with duty cycle 0 and resetPWM) in one
\* behaviour of SpecPWM.
MaxStopCalls == 1
\* Commands the host sends in one behaviour of SpecQueue.
MaxCmds == 3
\* Commands the host sends in one behaviour of SpecMs.
MaxMsCmds == 2
\* Last clock reading explored when loop() runs every millisecond.
MaxMs == 45
\* Commands the host sends in one behaviour of SpecFull.
MaxFullCmds == 2
\* Chunks of bytes the host sends in one behaviour of SpecFlood.
MaxChunks == 4
\* Bytes the host sends in one behaviour of SpecStream.
MaxStream == 5

\* Largest integer of the model checker.  An unsigned long difference
\* that wraps (2^32 minus a small number) is represented by it: such a
\* difference is only ever compared with the period and the on-time.
WRAPPED == 2147483647

VARIABLES
    commandBuffer,  \* main.cpp: byte commandBuffer[BUFFER_SIZE]
    bufferIndex,    \* main.cpp: int bufferIndex
    softPWM,        \* soft_pwm.cpp: SoftPWM softPWM[MAX_SOFT_PWM]
    softPWMCount,   \* soft_pwm.cpp: byte softPWMCount
    serialRx,       \* bytes received by the serial port and not yet read
    pinOut,         \* output last written to each physical pin
    pinModeReg,     \* mode last set for each physical pin
    now,            \* last reading of millis()
    step,           \* what the last operation did (observation only)
    hist,           \* what the run did so far (observation only)
    sent            \* bytes / commands / stops issued so far (bounds the run)

vars == <<commandBuffer, bufferIndex, softPWM, softPWMCount, serialRx, pinOut,
          pinModeReg, now, step, hist, sent>>

(***************************************************************************)
(* Hardware abstraction: the outputs the firmware writes to the pins       *)
(***************************************************************************)
PhysPins == 0 .. (A0 + (TOTAL_PINS - DIGITAL_PINS) - 1)

Min(a, b) == IF a < b THEN a ELSE b

\* digitalWrite(pin, val): any nonzero val drives the pin high.
DigitalWrite(po, pin, val) ==
    [po EXCEPT ![pin] = <<"digital", IF val = LOW THEN LOW ELSE HIGH>>]

\* analogWrite(pin, val) on a pin with a hardware timer.
AnalogWrite(po, pin, val) == [po EXCEPT ![pin] = <<"analog", val>>]

WriteOp(pin, val) == [op |-> "digitalWrite", pin |-> pin, val |-> val]

(***************************************************************************)
(* utils.cpp                                                               *)
(***************************************************************************)
\* Mutant of readPin: the range check admits the index TOTAL_PINS.
readPin_OffByOne(pin) ==
    IF pin < DIGITAL_PINS THEN [pin |-> pin, error |-> FALSE]
    ELSE IF pin <= TOTAL_PINS THEN [pin |-> pin - DIGITAL_PINS + A0, error |-> FALSE]
    ELSE [pin |-> 0, error |-> TRUE]

readPin(pin) ==
    IF pin < DIGITAL_PINS THEN [pin |-> pin, error |-> FALSE]
    ELSE IF pin < TOTAL_PINS THEN [pin |-> pin - DIGITAL_PINS + A0, error |-> FALSE]
    ELSE [pin |-> 0, error |-> TRUE]

isHardwarePWMPin(pin) ==
    \E i \in 1 .. Len(HARDWARE_PWM_PINS) : HARDWARE_PWM_PINS[i] = pin

(***************************************************************************)
(* soft_pwm.cpp                                                            *)
(***************************************************************************)
ZeroChannel ==
    [pin |-> 0, dutyCycle |-> 0, lastToggle |-> 0, state |-> FALSE, enabled |-> FALSE]

\* The scan of setPWM: the first index below the channel count whose slot
\* holds the pin or is disabled, the channel count if there is none.
RECURSIVE ScanFrom(_, _, _, _)
ScanFrom(tbl, cnt, pin, index) ==
    IF index >= cnt THEN index
    ELSE IF tbl[index].pin = pin \/ ~tbl[index].enabled THEN index
    ELSE ScanFrom(tbl, cnt, pin, index + 1)

\* Mutant of findSlot: the scan stops at the pin only, never at a disabled
\* slot.
RECURSIVE ScanPinOnly(_, _, _, _)
ScanPinOnly(tbl, cnt, pin, index) ==
    IF index >= cnt THEN index
    ELSE IF tbl[index].pin = pin THEN index
    ELSE ScanPinOnly(tbl, cnt, pin, index + 1)
findSlot_PinOnly(tbl, cnt, pin) == ScanPinOnly(tbl, cnt, pin, 0)

findSlot(tbl, cnt, pin) == ScanFrom(tbl, cnt, pin, 0)

\* Mutant of setPWM: the scan result is not compared with the capacity.
setPWM_NoFullCheck(tbl, cnt, po, t, pin, dutyCycle) ==
    IF isHardwarePWMPin(pin)
    THEN [tbl |-> tbl, cnt |-> cnt, po |-> AnalogWrite(po, pin, dutyCycle),
          ops |-> <<[op |-> "analogWrite", pin |-> pin, val |-> dutyCycle]>>,
          ret |-> TRUE]
    ELSE LET po1 == DigitalWrite(po, pin, LOW)
             ops1 == <<WriteOp(pin, LOW)>>
             index == findSlot(tbl, cnt, pin)
         IN  IF dutyCycle = 0
             THEN [tbl |-> IF index < cnt
                           THEN [tbl EXCEPT ![index].enabled = FALSE]
                           ELSE tbl,
                   cnt |-> cnt, po |-> po1, ops |-> ops1, ret |-> TRUE]
             ELSE [tbl |-> [i \in DOMAIN tbl |->
                               IF i = index
                               THEN [pin |-> pin, dutyCycle |-> dutyCycle,
                                     lastToggle |-> t, state |-> FALSE,
                                     enabled |-> TRUE]
                               ELSE tbl[i]],
                   cnt |-> IF index = cnt THEN cnt + 1 ELSE cnt,
                   po |-> po1, ops |-> ops1, ret |-> TRUE]

\* bool setPWM(byte pin, byte dutyCycle), called at clock reading t.
setPWM(tbl, cnt, po, t, pin, dutyCycle) ==
    IF isHardwarePWMPin(pin)
    THEN [tbl |-> tbl, cnt |-> cnt, po |-> AnalogWrite(po, pin, dutyCycle),
          ops |-> <<[op |-> "analogWrite", pin |-> pin, val |-> dutyCycle]>>,
          ret |-> TRUE]
    ELSE LET po1 == DigitalWrite(po, pin, LOW)
             ops1 == <<WriteOp(pin, LOW)>>
             index == findSlot(tbl, cnt, pin)
         IN  IF index >= MAX_SOFT_PWM
             THEN [tbl |-> tbl, cnt |-> cnt, po |-> po1, ops |-> ops1, ret |-> FALSE]
             ELSE IF dutyCycle = 0
             THEN [tbl |-> IF index < cnt
                           THEN [tbl EXCEPT ![index].enabled = FALSE]
                           ELSE tbl,
                   cnt |-> cnt, po |-> po1, ops |-> ops1, ret |-> TRUE]
             ELSE [tbl |-> [tbl EXCEPT ![index] =
                               [pin |-> pin, dutyCycle |-> dutyCycle,
                                lastToggle |-> t, state |-> FALSE,
                                enabled |-> TRUE]],
                   cnt |-> IF index = cnt THEN cnt + 1 ELSE cnt,
                   po |-> po1, ops |-> ops1, ret |-> TRUE]

\* The first index below the channel count whose slot holds the pin.
RECURSIVE PinSlotFrom(_, _, _, _)
PinSlotFrom(tbl, cnt, pin, i) ==
    IF i >= cnt THEN i
    ELSE IF tbl[i].pin = pin THEN i
    ELSE PinSlotFrom(tbl, cnt, pin, i + 1)

\* void resetPWM(byte pin)
resetPWM(tbl, cnt, pin) ==
    LET i == PinSlotFrom(tbl, cnt, pin, 0)
    IN  IF i < cnt THEN [tbl EXCEPT ![i].enabled = FALSE] ELSE tbl

period == 1000 \div SOFT_PWM_FREQ

onTime(dutyCycle) == (period * dutyCycle) \div 255

\* now - lastToggle in unsigned long arithmetic.
elapsed(t, lastToggle) == IF t >= lastToggle THEN t - lastToggle ELSE WRAPPED

\* Mutant of updateChannel: the falling edge sets lastToggle too.
updateChannel_ResetOnFall(acc, i, t) ==
    LET ch == acc.tbl[i]
    IN  IF ~ch.enabled THEN acc
        ELSE IF ch.state /\ elapsed(t, ch.lastToggle) >= onTime(ch.dutyCycle)
        THEN [tbl |-> [acc.tbl EXCEPT ![i].state = FALSE, ![i].lastToggle = t],
              po |-> DigitalWrite(acc.po, ch.pin, LOW),
              writes |-> Append(acc.writes, WriteOp(ch.pin, LOW))]
        ELSE IF ~ch.state /\ elapsed(t, ch.lastToggle) >= period
        THEN [tbl |-> [acc.tbl EXCEPT ![i].state = TRUE, ![i].lastToggle = t],
              po |-> DigitalWrite(acc.po, ch.pin, HIGH),
              writes |-> Append(acc.writes, WriteOp(ch.pin, HIGH))]
        ELSE acc

\* The body of the loop of updateSoftPWM for channel i at clock reading t:
\* acc is [tbl, po, writes], writes being the digitalWrite calls made so far.
updateChannel(acc, i, t) ==
    LET ch == acc.tbl[i]
    IN  IF ~ch.enabled THEN acc
        ELSE IF ch.state /\ elapsed(t, ch.lastToggle) >= onTime(ch.dutyCycle)
        THEN [tbl |-> [acc.tbl EXCEPT ![i].state = FALSE],
              po |-> DigitalWrite(acc.po, ch.pin, LOW),
              writes |-> Append(acc.writes, WriteOp(ch.pin, LOW))]
        ELSE IF ~ch.state /\ elapsed(t, ch.lastToggle) >= period
        THEN [tbl |-> [acc.tbl EXCEPT ![i].state = TRUE, ![i].lastToggle = t],
              po |-> DigitalWrite(acc.po, ch.pin, HIGH),
              writes |-> Append(acc.writes, WriteOp(ch.pin, HIGH))]
        ELSE acc

RECURSIVE UpdateFrom(_, _, _, _)
UpdateFrom(acc, cnt, i, t) ==
    IF i >= cnt THEN acc ELSE UpdateFrom(updateChannel(acc, i, t), cnt, i + 1, t)

\* void updateSoftPWM(), millis() reading t.
updateSoftPWM(tbl, cnt, po, t) ==
    UpdateFrom([tbl |-> tbl, po |-> po, writes |-> <<>>], cnt, 0, t)

(***************************************************************************)
(* commands.cpp                                                            *)
(***************************************************************************)
\* Mutant of getRequiredArgs: an unknown opcode takes one operand.
getRequiredArgs_DefaultOne(command) ==
    IF command \in {CMD_NOP, CMD_RESET, CMD_INFO} THEN 0
    ELSE IF command \in {CMD_PINMODE, CMD_DIGITALWRITE, CMD_ANALOGWRITE} THEN 2
    ELSE IF command \in {CMD_DIGITALREAD, CMD_ANALOGREAD} THEN 1
    ELSE 1

getRequiredArgs(command) ==
    IF command \in {CMD_NOP, CMD_RESET, CMD_INFO} THEN 0
    ELSE IF command \in {CMD_PINMODE, CMD_DIGITALWRITE, CMD_ANALOGWRITE} THEN 2
    ELSE IF command \in {CMD_DIGITALREAD, CMD_ANALOGREAD} THEN 1
    ELSE 0

\* Mutant of hasCompleteCommand: one byte more than the command is needed.
hasCompleteCommand_NeedsSpare(buf, idx) ==
    idx > 0 /\ idx > getRequiredArgs(buf[0]) + 1

\* Mutant of hasCompleteCommand: as many bytes as operands are enough.
hasCompleteCommand_Ge(buf, idx) == idx > 0 /\ idx >= getRequiredArgs(buf[0])

hasCompleteCommand(buf, idx) == idx > 0 /\ idx > getRequiredArgs(buf[0])

\* void sendUInt16(int value): low byte, then high byte.
sendUInt16(value) == <<value % 256, (value \div 256) % 256>>

\* void sendUInt32(unsigned long value): four bytes, lowest first.
sendUInt32(value) ==
    <<value % 256, (value \div 256) % 256, (value \div 65536) % 256,
      (value \div 16777216) % 256>>

\* void sendInfo(), millis() reading t and getFreeRam() reading freeRam.
sendInfo(t, freeRam) ==
    sendUInt16(46102) \o sendUInt16(VERSION) \o sendUInt32(t)
    \o sendUInt16(freeRam) \o sendUInt16(TOTAL_RAM)
    \o sendUInt32(FLASH_SIZE) \o sendUInt32(CPU_FREQ)
    \o <<BUFFER_SIZE, DIGITAL_PINS, TOTAL_PINS, MAX_SOFT_PWM, SOFT_PWM_FREQ,
         COMMANDS_COUNT, SUCCESS_CODE, ERROR_CODE>>
    \o <<Len(HARDWARE_PWM_PINS)>> \o HARDWARE_PWM_PINS
    \o <<Len(INFO)>> \o INFO

NoResult ==
    [hasError |-> FALSE, hasOutput |-> FALSE, isTwoByteOutput |-> FALSE,
     outputValue |-> 0]

\* Mutant of sendResponse: no return after ERROR_CODE.
sendResponse_NoReturn(result) ==
    (IF result.hasError THEN <<ERROR_CODE>> ELSE <<>>)
    \o (IF result.hasOutput
        THEN <<result.outputValue % 256>>
             \o (IF result.isTwoByteOutput
                 THEN <<(result.outputValue \div 256) % 256>>
                 ELSE <<>>)
        ELSE <<>>)
    \o <<SUCCESS_CODE>>

\* Mutant of sendResponse: the high byte goes first.
sendResponse_HighFirst(result) ==
    IF result.hasError THEN <<ERROR_CODE>>
    ELSE (IF result.hasOutput
          THEN (IF result.isTwoByteOutput
                THEN <<(result.outputValue \div 256) % 256>>
                ELSE <<>>)
               \o <<result.outputValue % 256>>
          ELSE <<>>)
         \o <<SUCCESS_CODE>>

\* void sendResponse(): the bytes it writes for the command result.
sendResponse(result) ==
    IF result.hasError THEN <<ERROR_CODE>>
    ELSE (IF result.hasOutput
          THEN <<result.outputValue % 256>>
               \o (IF result.isTwoByteOutput
                   THEN <<(result.outputValue \div 256) % 256>>
                   ELSE <<>>)
          ELSE <<>>)
         \o <<SUCCESS_CODE>>

\* Mutant of executeBufferedCommand: reset answers and returns to loop().
executeBufferedCommand_NoJump(buf, tbl, cnt, po, pm, t, rd) ==
    LET command == buf[0]
        base == [result |-> NoResult, tbl |-> tbl, cnt |-> cnt, po |-> po,
                 pm |-> pm, ops |-> <<>>, written |-> <<>>, restart |-> FALSE]
        addressed == command \notin {CMD_NOP, CMD_RESET, CMD_INFO}
        rp == IF addressed THEN readPin(buf[1]) ELSE [pin |-> 0, error |-> FALSE]
        pin == rp.pin
    IN  IF rp.error
        THEN [base EXCEPT !.result.hasError = TRUE]
        ELSE CASE command = CMD_NOP -> base
          [] command = CMD_INFO ->
                [base EXCEPT !.written = sendInfo(t, rd),
                             !.result.hasOutput = TRUE]
          [] command = CMD_DIGITALREAD ->
                [base EXCEPT !.result.outputValue = rd % 65536,
                             !.result.hasOutput = TRUE,
                             !.ops = <<[op |-> "digitalRead", pin |-> pin, val |-> rd]>>]
          [] command = CMD_DIGITALWRITE ->
                [base EXCEPT !.tbl = resetPWM(tbl, cnt, pin),
                             !.po = DigitalWrite(po, pin, buf[2]),
                             !.ops = <<WriteOp(pin, buf[2])>>]
          [] command = CMD_ANALOGREAD ->
                [base EXCEPT !.result.outputValue = rd % 65536,
                             !.result.hasOutput = TRUE,
                             !.result.isTwoByteOutput = TRUE,
                             !.ops = <<[op |-> "analogRead", pin |-> pin, val |-> rd]>>]
          [] command = CMD_ANALOGWRITE ->
                LET r == setPWM(tbl, cnt, po, t, pin, buf[2])
                IN  [base EXCEPT !.result.hasError = ~r.ret,
                                 !.tbl = r.tbl, !.cnt = r.cnt, !.po = r.po,
                                 !.ops = r.ops]
          [] command = CMD_RESET ->
                [base EXCEPT !.written = sendResponse(NoResult)]
          [] command = CMD_PINMODE ->
                [base EXCEPT !.pm = [pm EXCEPT ![pin] = buf[2]],
                             !.ops = <<[op |-> "pinMode", pin |-> pin, val |-> buf[2]]>>]
          [] OTHER -> [base EXCEPT !.result.hasError = TRUE]

\* void executeBufferedCommand() on the buffer buf at clock reading t; rd is
\* the value the hardware returns to the one read the command makes
\* (digitalRead, analogRead or getFreeRam).  The result holds the command
\* result, the table, the pins, the pin operations made (ops), the bytes
\* written to the serial port during the call (written) and whether the
\* call jumped to the reset vector (restart).
executeBufferedCommand(buf, tbl, cnt, po, pm, t, rd) ==
    LET command == buf[0]
        base == [result |-> NoResult, tbl |-> tbl, cnt |-> cnt, po |-> po,
                 pm |-> pm, ops |-> <<>>, written |-> <<>>, restart |-> FALSE]
        addressed == command \notin {CMD_NOP, CMD_RESET, CMD_INFO}
        rp == IF addressed THEN readPin(buf[1]) ELSE [pin |-> 0, error |-> FALSE]
        pin == rp.pin
    IN  IF rp.error
        THEN [base EXCEPT !.result.hasError = TRUE]
        ELSE CASE command = CMD_NOP -> base
          [] command = CMD_INFO ->
                [base EXCEPT !.written = sendInfo(t, rd),
                             !.result.hasOutput = TRUE]
          [] command = CMD_DIGITALREAD ->
                [base EXCEPT !.result.outputValue = rd % 65536,
                             !.result.hasOutput = TRUE,
                             !.ops = <<[op |-> "digitalRead", pin |-> pin, val |-> rd]>>]
          [] command = CMD_DIGITALWRITE ->
                [base EXCEPT !.tbl = resetPWM(tbl, cnt, pin),
                             !.po = DigitalWrite(po, pin, buf[2]),
                             !.ops = <<WriteOp(pin, buf[2])>>]
          [] command = CMD_ANALOGREAD ->
                [base EXCEPT !.result.outputValue = rd % 65536,
                             !.result.hasOutput = TRUE,
                             !.result.isTwoByteOutput = TRUE,
                             !.ops = <<[op |-> "analogRead", pin |-> pin, val |-> rd]>>]
          [] command = CMD_ANALOGWRITE ->
                LET r == setPWM(tbl, cnt, po, t, pin, buf[2])
                IN  [base EXCEPT !.result.hasError = ~r.ret,
                                 !.tbl = r.tbl, !.cnt = r.cnt, !.po = r.po,
                                 !.ops = r.ops]
          [] command = CMD_RESET ->
                [base EXCEPT !.written = sendResponse(NoResult),
                             !.restart = TRUE]
          [] command = CMD_PINMODE ->
                [base EXCEPT !.pm = [pm EXCEPT ![pin] = buf[2]],
                             !.ops = <<[op |-> "pinMode", pin |-> pin, val |-> buf[2]]>>]
          [] OTHER -> [base EXCEPT !.result.hasError = TRUE]

(***************************************************************************)
(* State machine                                                           *)
(***************************************************************************)
BufIdx == 0 .. (BUFFER_SIZE - 1)
SlotIdx == 0 .. (MAX_SOFT_PWM - 1)

ZeroBuffer == [i \in BufIdx |-> 0]
ZeroTable == [i \in SlotIdx |-> ZeroChannel]

\* Observation of the last operation.  For an iteration of loop(): t the
\* clock reading, writes the digitalWrite calls of updateSoftPWM, held the
\* pins claimed (hist.claimed) when it began, seenBuf/seenLen the buffer after
\* the serial drain, dispatched whether a command was executed, hasError its
\* result, rd the value the hardware returned to its read, ops its pin
\* operations, out the bytes written to the serial port, restarted whether it
\* jumped to the reset vector, afterError how the command dispatched
\* before it had failed.  For a direct call of the soft_pwm.cpp
\* interface: pin, duty and the value returned (ret).
NoStep ==
    [op |-> "none", t |-> 0, writes |-> <<>>, held |-> {}, seenBuf |-> ZeroBuffer,
     seenLen |-> 0, dispatched |-> FALSE, hasError |-> FALSE, rd |-> 0,
     ops |-> <<>>, out |-> <<>>, restarted |-> FALSE, afterError |-> "no",
     pin |-> 0, duty |-> 0, ret |-> TRUE]

\* claimed: the pins a dispatched digital-write has written and no
\* analog-write has been dispatched for since.  lastFailed: how the command
\* dispatched last failed ("no", "pin", "table" or "opcode").  edges: the
\* last three pin writes of updateSoftPWM, each with its clock reading.
\* With logging on: stream, the bytes the host has put on the serial line;
\* cmds, the commands dispatched (opcode and operands as the dispatcher found
\* them in the buffer); split, whether the bytes of a dispatched command were
\* read from the serial port in more than one iteration of loop().
NoHist ==
    [claimed |-> {}, lastFailed |-> "no", edges |-> <<>>, logging |-> FALSE,
     stream |-> <<>>, cmds |-> <<>>, split |-> FALSE]

\* The last three entries of the edges of h followed by the writes ws of
\* updateSoftPWM at clock reading t.
RECURSIVE Stamp(_, _)
Stamp(ws, t) ==
    IF ws = <<>> THEN <<>>
    ELSE <<[pin |-> Head(ws).pin, val |-> Head(ws).val, t |-> t]>> \o Stamp(Tail(ws), t)
LastEdges(h, ws, t) ==
    LET all == h.edges \o Stamp(ws, t)
    IN  IF Len(all) <= 3 THEN all ELSE SubSeq(all, Len(all) - 2, Len(all))

\* The logical pins without hardware PWM, lowest first.
SoftPinSet == {p \in 0 .. (TOTAL_PINS - 1) : ~isHardwarePWMPin(readPin(p).pin)}
RECURSIVE NthSoftFrom(_, _)
NthSoftFrom(n, p) ==
    IF p \in SoftPinSet
    THEN (IF n = 1 THEN p ELSE NthSoftFrom(n - 1, p + 1))
    ELSE NthSoftFrom(n, p + 1)
NthSoft(n) == NthSoftFrom(n, 0)

\* What k successful analog-write commands, for the first k pins without
\* hardware PWM and duty cycle 128, leave at clock reading 0.
RECURSIVE Configured(_)
Configured(k) ==
    IF k = 0
    THEN [tbl |-> ZeroTable, cnt |-> 0, po |-> [p \in PhysPins |-> <<"none", 0>>]]
    ELSE LET f == Configured(k - 1)
         IN  setPWM(f.tbl, f.cnt, f.po, 0, readPin(NthSoft(k)).pin, 128)

\* The firmware after setup() and k such commands: the last of them is still
\* in the first bytes of the command buffer, behind the logical length.
InitAt(k) ==
    /\ commandBuffer = [i \in BufIdx |->
            IF k = 0 THEN 0
            ELSE IF i = 0 THEN CMD_ANALOGWRITE
            ELSE IF i = 1 THEN NthSoft(k)
            ELSE IF i = 2 THEN 128
            ELSE 0]
    /\ bufferIndex = 0
    /\ softPWM = Configured(k).tbl
    /\ softPWMCount = Configured(k).cnt
    /\ serialRx = <<>>
    /\ pinOut = Configured(k).po
    /\ pinModeReg = [p \in PhysPins |-> 0]
    /\ now = 0
    /\ step = NoStep
    /\ hist = NoHist
    /\ sent = 0

\* The state setup() leaves: globals zero-initialised, nothing received.
Init == InitAt(0)

\* The firmware with every software-PWM channel in use.
InitBusy == InitAt(MAX_SOFT_PWM)

\* The host puts the bytes of chunk on the serial line.
Receive(chunk, cost, budget) ==
    /\ sent + cost <= budget
    /\ Len(serialRx) + Len(chunk) <= MaxRx
    /\ serialRx' = serialRx \o chunk
    /\ sent' = sent + cost
    /\ step' = NoStep
    /\ hist' = IF hist.logging THEN [hist EXCEPT !.stream = @ \o chunk] ELSE hist
    /\ UNCHANGED <<commandBuffer, bufferIndex, softPWM, softPWMCount, pinOut,
                   pinModeReg, now>>

\* Values the hardware may return to the read a command makes.
AdcValues == {0, 511, 1023}
FreeRamValues == {1789}
ReadValues(command) ==
    IF command = CMD_DIGITALREAD THEN {LOW, HIGH}
    ELSE IF command = CMD_ANALOGREAD THEN AdcValues
    ELSE IF command = CMD_INFO THEN FreeRamValues
    ELSE {0}

\* Mutant of drain: the bytes the buffer has no room for are read and
\* thrown away.
drain_Discard(buf, idx, rx) ==
    LET n == Min(Len(rx), BUFFER_SIZE - idx)
    IN  [buf |-> [i \in BufIdx |-> IF idx <= i /\ i < idx + n
                                   THEN rx[i - idx + 1] ELSE buf[i]],
         idx |-> idx + n,
         rx |-> <<>>]

\* The serial drain of loop(): bytes are read while any is available and
\* the buffer has room.
drain(buf, idx, rx) ==
    LET n == Min(Len(rx), BUFFER_SIZE - idx)
    IN  [buf |-> [i \in BufIdx |-> IF idx <= i /\ i < idx + n
                                   THEN rx[i - idx + 1] ELSE buf[i]],
         idx |-> idx + n,
         rx |-> SubSeq(rx, n + 1, Len(rx))]

\* Mutant of compact: the length drops, the bytes do not move.
compact_NoShift(buf, idx, commandLength) ==
    [buf |-> buf, idx |-> idx - commandLength]

\* The compaction of loop(): the bytes behind the command move to offset 0.
compact(buf, idx, commandLength) ==
    [buf |-> [i \in BufIdx |-> IF i + commandLength < idx
                               THEN buf[i + commandLength] ELSE buf[i]],
     idx |-> idx - commandLength]

\* hist after an iteration of loop() at clock reading t in which
\* updateSoftPWM wrote ws and the command in buf was dispatched with result e.
record(h, buf, e, ws, t) ==
    LET p == readPin(buf[1]).pin
    IN  [h EXCEPT
         !.edges = LastEdges(h, ws, t),
         !.claimed = IF e.result.hasError THEN h.claimed
                     ELSE IF buf[0] = CMD_DIGITALWRITE THEN h.claimed \cup {p}
                     ELSE IF buf[0] = CMD_ANALOGWRITE THEN h.claimed \ {p}
                     ELSE h.claimed,
         !.lastFailed = IF ~e.result.hasError THEN "no"
                        ELSE IF getRequiredArgs(buf[0]) = 0 THEN "opcode"
                        ELSE IF readPin(buf[1]).error THEN "pin"
                        ELSE "table"]

\* hist with the command dispatched from buf logged; had is the buffer
\* length before the serial drain of that iteration.
logged(h, buf, had) ==
    IF ~h.logging THEN h
    ELSE [h EXCEPT
          !.cmds = Append(@, [k \in 1 .. (1 + getRequiredArgs(buf[0])) |-> buf[k - 1]]),
          !.split = @ \/ (had >= 1 /\ had <= getRequiredArgs(buf[0]))]

\* One iteration of loop(), delta milliseconds after the previous one.
Loop(delta, rd) ==
    /\ LET t == now + delta
           u == updateSoftPWM(softPWM, softPWMCount, pinOut, t)
           d == drain(commandBuffer, bufferIndex, serialRx)
           seen == [NoStep EXCEPT !.op = "loop", !.t = t, !.writes = u.writes,
                                  !.held = hist.claimed,
                                  !.seenBuf = d.buf, !.seenLen = d.idx]
       IN  IF ~hasCompleteCommand(d.buf, d.idx)
           THEN /\ commandBuffer' = d.buf
                /\ bufferIndex' = d.idx
                /\ serialRx' = d.rx
                /\ softPWM' = u.tbl
                /\ pinOut' = u.po
                /\ now' = t
                /\ step' = seen
                /\ hist' = [hist EXCEPT !.edges = LastEdges(hist, u.writes, t)]
                /\ UNCHANGED <<softPWMCount, pinModeReg, sent>>
           ELSE LET e == executeBufferedCommand(d.buf, u.tbl, softPWMCount,
                                                u.po, pinModeReg, t, rd)
                    c == compact(d.buf, d.idx, 1 + getRequiredArgs(d.buf[0]))
                    did == [seen EXCEPT !.dispatched = TRUE,
                                        !.hasError = e.result.hasError,
                                        !.rd = rd, !.ops = e.ops,
                                        !.afterError = hist.lastFailed]
                IN  /\ pinOut' = e.po
                    /\ pinModeReg' = e.pm
                    /\ UNCHANGED sent
                    /\ IF e.restart
                       THEN \* jmp 0: the C runtime initialises the globals
                            \* again and setup() runs; the port registers
                            \* keep their values.
                            /\ commandBuffer' = ZeroBuffer
                            /\ bufferIndex' = 0
                            /\ serialRx' = <<>>
                            /\ softPWM' = ZeroTable
                            /\ softPWMCount' = 0
                            /\ now' = 0
                            /\ hist' = NoHist
                            /\ step' = [did EXCEPT !.out = e.written,
                                                   !.restarted = TRUE]
                       ELSE /\ commandBuffer' = c.buf
                            /\ bufferIndex' = c.idx
                            /\ serialRx' = d.rx
                            /\ softPWM' = e.tbl
                            /\ softPWMCount' = e.cnt
                            /\ now' = t
                            /\ hist' = logged(record(hist, d.buf, e, u.writes, t),
                                               d.buf, bufferIndex)
                            /\ step' = [did EXCEPT !.out =
                                   e.written \o sendResponse(e.result)]

\* Bytes the host sends in Spec: every opcode, pins
\* with and without hardware PWM, an analog pin and unknown opcode (14) and a pin index out of
\* range (22).
Bytes == {0, 1, 2, 3, 4, 5, 6, 7, 14, 22}
Deltas == {0, period}

\* The values the hardware may return to the read of the command the next
\* iteration of loop() dispatches, if it dispatches one.
LoopReads ==
    LET d == drain(commandBuffer, bufferIndex, serialRx)
    IN  IF hasCompleteCommand(d.buf, d.idx) THEN ReadValues(d.buf[0]) ELSE {0}

HostSend == \E b \in Bytes : Receive(<<b>>, 1, MaxSent)
Tick ==
    \E delta \in Deltas :
        /\ now + delta <= MaxTime
        /\ \E rd \in LoopReads : Loop(delta, rd)

Next == HostSend \/ Tick

Spec == Init /\ [][Next]_vars

\* The host of SpecBusy: no-op / pin 0 / duty 0, analog-write, a pin without
\* a channel (14, also an unknown opcode), a pin out of range.
BusyBytes == {0, 5, 14, 22}

HostSendBusy == \E b \in BusyBytes : Receive(<<b>>, 1, MaxSentBusy)

NextBusy == HostSendBusy \/ Tick

SpecBusy == InitBusy /\ [][NextBusy]_vars

\* The host of SpecCmd sends whole analog-write and digital-write commands
\* for two pins without hardware PWM.
CmdPins == {NthSoft(1), NthSoft(2)}
PwmCmds ==
    {<<CMD_ANALOGWRITE, p, d>> : p \in CmdPins, d \in {0, 128}}
    \cup {<<CMD_DIGITALWRITE, p, HIGH>> : p \in CmdPins}

\* A command that stops a channel: analog-write of 0 or digital-write.
IsStop(c) == c[1] = CMD_DIGITALWRITE \/ c[3] = 0

\* It sends a command once the previous one has been read and dispatched.
HostSendCmd ==
    /\ serialRx = <<>>
    /\ bufferIndex = 0
    /\ \E c \in PwmCmds : Receive(c, IF IsStop(c) THEN 1 ELSE 0, MaxStops)

NextCmd == HostSendCmd \/ Tick

SpecCmd == Init /\ [][NextCmd]_vars

\* The host of SpecQueue sends whole commands of every length without
\* waiting for the responses.
QueueCmds ==
    {<<CMD_NOP>>, <<CMD_DIGITALREAD, NthSoft(1)>>,
     <<CMD_DIGITALWRITE, NthSoft(1), HIGH>>}

HostSendQueue == \E c \in QueueCmds : Receive(c, 1, MaxCmds)

NextQueue == HostSendQueue \/ Tick

SpecQueue == Init /\ [][NextQueue]_vars

\* In SpecMs loop() runs once every millisecond and the host starts and
\* stops one software-PWM channel.
MsDuties == {0, 128, 255}

HostSendMs ==
    /\ serialRx = <<>>
    /\ bufferIndex = 0
    /\ \E d \in MsDuties : Receive(<<CMD_ANALOGWRITE, NthSoft(1), d>>, 1, MaxMsCmds)

TickMs ==
    /\ now + 1 <= MaxMs
    /\ \E rd \in LoopReads : Loop(1, rd)

NextMs == HostSendMs \/ TickMs

SpecMs == Init /\ [][NextMs]_vars

\* The host of SpecFull talks to the firmware with every software-PWM
\* channel in use: digital-write and analog-write for a pin without a
\* channel and for a pin with one.
FullPins == {NthSoft(1), NthSoft(MAX_SOFT_PWM + 1)}
FullCmds ==
    {<<CMD_DIGITALWRITE, p, HIGH>> : p \in FullPins}
    \cup {<<CMD_ANALOGWRITE, p, 128>> : p \in FullPins}

HostSendFull ==
    /\ serialRx = <<>>
    /\ bufferIndex = 0
    /\ \E c \in FullCmds : Receive(c, 1, MaxFullCmds)

NextFull == HostSendFull \/ Tick

SpecFull == InitBusy /\ [][NextFull]_vars

\* The host of SpecFlood sends three bytes at a time without waiting for
\* the responses, faster than loop() dispatches, to the firmware with every
\* software-PWM channel in use; the analog-write is for a pin without a
\* channel.
FloodChunks ==
    {<<CMD_NOP, CMD_NOP, CMD_NOP>>,
     <<CMD_ANALOGWRITE, NthSoft(MAX_SOFT_PWM + 1), 128>>,
     <<CMD_DIGITALREAD, NthSoft(1), CMD_INFO>>, <<CMD_RESET, CMD_NOP, CMD_NOP>>}

HostSendFlood == \E c \in FloodChunks : Receive(c, 1, MaxChunks)

NextFlood == HostSendFlood \/ Tick

SpecFlood == InitBusy /\ [][NextFlood]_vars

\* The host of SpecStream sends a byte at a time, so that the iterations of
\* loop() cut the byte stream at every place; the bytes are the opcodes of a
\* command of one, of two and of three bytes, and serve as operands too.
\* The stream sent and the commands dispatched are logged.
StreamBytes == {CMD_NOP, CMD_DIGITALREAD, CMD_DIGITALWRITE}

InitStream ==
    /\ commandBuffer = ZeroBuffer
    /\ bufferIndex = 0
    /\ softPWM = ZeroTable
    /\ softPWMCount = 0
    /\ serialRx = <<>>
    /\ pinOut = [p \in PhysPins |-> <<"none", 0>>]
    /\ pinModeReg = [p \in PhysPins |-> 0]
    /\ now = 0
    /\ step = NoStep
    /\ hist = [NoHist EXCEPT !.logging = TRUE]
    /\ sent = 0

HostSendStream == \E b \in StreamBytes : Receive(<<b>>, 1, MaxStream)

TickStream == \E rd \in LoopReads : Loop(0, rd)

NextStream == HostSendStream \/ TickStream

SpecStream == InitStream /\ [][NextStream]_vars

\* In SpecFair the host sends three bytes at a time without waiting, no
\* reset among them, and loop() runs again and again (main() of the Arduino
\* core calls it in an endless loop).  The stream sent and the commands
\* dispatched are logged.
FairChunks ==
    {<<CMD_NOP, CMD_DIGITALREAD, NthSoft(1)>>,
     <<CMD_DIGITALWRITE, NthSoft(1), HIGH>>}

HostSendFair == \E c \in FairChunks : Receive(c, 1, MaxChunks)

NextFair == HostSendFair \/ TickStream

SpecFair == InitStream /\ [][NextFair]_vars /\ WF_vars(TickStream)

(***************************************************************************)
(* The interface of soft_pwm.cpp called directly                           *)
(***************************************************************************)
UsedPins == {softPWM[i].pin : i \in 0 .. (softPWMCount - 1)}

\* The lowest pin without hardware PWM that no slot of the table holds.
RECURSIVE FreshFrom(_)
FreshFrom(n) == IF NthSoft(n) \in UsedPins THEN FreshFrom(n + 1) ELSE NthSoft(n)

\* Pins the caller passes: setPWM and resetPWM only compare pins without
\* hardware PWM for equality, so one new pin stands for all of them.
CallPins == UsedPins \cup {FreshFrom(1)}

CallSetPWM ==
    \E pin \in CallPins, dutyCycle \in {0, 128} :
        LET r == setPWM(softPWM, softPWMCount, pinOut, now, pin, dutyCycle)
        IN  /\ sent + (IF dutyCycle = 0 THEN 1 ELSE 0) <= MaxStopCalls
            /\ sent' = sent + (IF dutyCycle = 0 THEN 1 ELSE 0)
            /\ softPWM' = r.tbl
            /\ softPWMCount' = r.cnt
            /\ pinOut' = r.po
            /\ step' = [NoStep EXCEPT !.op = "setPWM", !.t = now, !.pin = pin,
                                      !.duty = dutyCycle, !.ret = r.ret,
                                      !.ops = r.ops,
                                      !.afterError = hist.lastFailed]
            /\ hist' = [hist EXCEPT !.lastFailed = IF r.ret THEN "no" ELSE "table"]
            /\ UNCHANGED <<commandBuffer, bufferIndex, serialRx, pinModeReg, now>>

CallResetPWM ==
    \E pin \in CallPins :
        /\ sent + 1 <= MaxStopCalls
        /\ sent' = sent + 1
        /\ softPWM' = resetPWM(softPWM, softPWMCount, pin)
        /\ step' = [NoStep EXCEPT !.op = "resetPWM", !.t = now, !.pin = pin]
        /\ UNCHANGED <<commandBuffer, bufferIndex, softPWMCount, serialRx,
                       pinOut, pinModeReg, now, hist>>

NextPWM == CallSetPWM \/ CallResetPWM

SpecPWM == Init /\ [][NextPWM]_vars

(***************************************************************************)
(* Properties                                                              *)
(***************************************************************************)
\* The operand count of an opcode as the protocol table gives it.
OperandCount(opcode) ==
    IF opcode \in {2, 4} THEN 1 ELSE IF opcode \in {3, 5, 6} THEN 2 ELSE 0

Dispatched == step.op = "loop" /\ step.dispatched
Opcode == step.seenBuf[0]
PinOperand == step.seenBuf[1]
EnabledFor(p) ==
    {i \in 0 .. (softPWMCount - 1) : softPWM[i].enabled /\ softPWM[i].pin = p}
WrittenByUpdate == {step.writes[k].pin : k \in 1 .. Len(step.writes)}

\* C1: once a digital-write to a valid pin p has been dispatched, and until
\* an analog-write to p is dispatched, no enabled software-PWM channel holds
\* p and updateSoftPWM does not write p.
C1_DigitalWriteStopsPWM ==
    /\ \A p \in hist.claimed : EnabledFor(p) = {}
    /\ step.op = "loop" => step.held \cap WrittenByUpdate = {}

\* C2: a command that ends in error (pin index out of range for opcodes
\* 2..6, software-PWM table exhausted, unknown opcode) writes exactly
\* ERROR_CODE; the loop goes on: it has not restarted and the bytes behind
\* the command are at the front of the buffer for the next iteration.
C2_Error ==
    \/ Opcode \in 2 .. 6 /\ PinOperand >= TOTAL_PINS
    \/ Opcode = CMD_ANALOGWRITE /\ step.hasError
    \/ Opcode \notin 0 .. 7
C2_ErrorResponse ==
    (Dispatched /\ C2_Error) =>
        /\ step.out = <<ERROR_CODE>>
        /\ ~step.restarted
        /\ bufferIndex = step.seenLen - (1 + OperandCount(Opcode))
        /\ \A i \in 0 .. (bufferIndex - 1) :
               commandBuffer[i] = step.seenBuf[i + 1 + OperandCount(Opcode)]
\* A command answered with success right after an analog-write failed on the
\* full table.
C2_Witness ==
    Dispatched /\ step.afterError = "table" /\ step.out = <<SUCCESS_CODE>>

\* C3: a command other than info that ends without error writes its output
\* bytes and then one SUCCESS_CODE: none for no-op, digital-write, pin-mode,
\* analog-write (and reset), the low byte of the value for digital-read, low
\* byte then high byte for analog-read (1023 gives 255, 3, 255).
C3_SuccessResponse ==
    (Dispatched /\ ~step.hasError /\ Opcode # CMD_INFO) =>
        /\ Opcode \in {CMD_NOP, CMD_DIGITALWRITE, CMD_PINMODE, CMD_ANALOGWRITE,
                       CMD_RESET}
              => step.out = <<SUCCESS_CODE>>
        /\ Opcode = CMD_DIGITALREAD => step.out = <<step.rd % 256, SUCCESS_CODE>>
        /\ Opcode = CMD_ANALOGREAD
              => step.out = <<step.rd % 256, step.rd \div 256, SUCCESS_CODE>>
        /\ (Opcode = CMD_ANALOGREAD /\ step.rd = 1023) => step.out = <<255, 3, 255>>
C3_Witness ==
    Dispatched /\ ~step.hasError /\ Opcode = CMD_ANALOGREAD /\ step.rd = 1023

\* C4: the response to info is the info payload immediately followed by one
\* SUCCESS_CODE.
C4_InfoResponse ==
    (Dispatched /\ Opcode = CMD_INFO) =>
        step.out = sendInfo(step.t, step.rd) \o <<SUCCESS_CODE>>

\* C5: an iteration of loop() dispatches a command iff, after the serial
\* drain, more bytes are buffered than the opcode at position 0 has operands.
C5_DispatchIff ==
    step.op = "loop" =>
        (step.dispatched <=> step.seenLen > OperandCount(Opcode))
\* Digital-write with opcode and one operand buffered: not dispatched.
C5_Witness ==
    step.op = "loop" /\ Opcode = CMD_DIGITALWRITE /\ step.seenLen = 2
    /\ ~step.dispatched

\* C6: dispatching a command with N operands, reset excepted, takes 1+N
\* bytes off the buffer: the length drops by 1+N and the bytes behind the
\* command are at the front, in order.
C6_Compaction ==
    (Dispatched /\ Opcode # CMD_RESET) =>
        /\ bufferIndex = step.seenLen - (1 + OperandCount(Opcode))
        /\ \A i \in 0 .. (bufferIndex - 1) :
               commandBuffer[i] = step.seenBuf[i + 1 + OperandCount(Opcode)]
\* A 3-byte command dispatched with 5 bytes buffered leaves 2.
C6_Witness ==
    Dispatched /\ OperandCount(Opcode) = 2 /\ step.seenLen = 5 /\ bufferIndex = 2

\* C7: a pin-addressed command whose pin operand is out of range makes no
\* pin operation and leaves the channel table and the channel count as
\* updateSoftPWM left them in that iteration.
C7_BadPin ==
    [][(step'.op = "loop" /\ step'.dispatched
          /\ step'.seenBuf[0] \in 2 .. 6 /\ step'.seenBuf[1] >= TOTAL_PINS) =>
        LET u == updateSoftPWM(softPWM, softPWMCount, pinOut, step'.t)
        IN  /\ step'.ops = <<>>
            /\ softPWM' = u.tbl
            /\ softPWMCount' = softPWMCount
            /\ pinOut' = u.po
            /\ pinModeReg' = pinModeReg]_vars
C7_Witness ==
    Dispatched /\ Opcode = CMD_DIGITALWRITE /\ PinOperand >= TOTAL_PINS

\* C8: setPWM(pin, 0) for a pin without hardware PWM that no slot of the
\* table holds returns success and allocates nothing, whatever the table.
C8_StopWithoutChannel ==
    [][(step'.op = "setPWM" /\ step'.duty = 0
          /\ ~isHardwarePWMPin(step'.pin) /\ step'.pin \notin UsedPins) =>
        /\ step'.ret
        /\ softPWMCount' = softPWMCount
        /\ \A i \in SlotIdx : softPWM'[i].enabled => softPWM[i].enabled]_vars

\* C9: setPWM with a nonzero duty cycle for a pin without hardware PWM fails
\* exactly when the channel count is MAX_SOFT_PWM and every slot is enabled
\* and holds another pin (so the call after MAX_SOFT_PWM calls for distinct
\* pins fails); a successful call leaves the pin an enabled channel, and a
\* call for a new pin on a table at capacity with a disabled slot takes the
\* first disabled slot.
C9_Full ==
    /\ softPWMCount = MAX_SOFT_PWM
    /\ \A i \in SlotIdx : softPWM[i].enabled /\ softPWM[i].pin # step'.pin
C9_FirstDisabled ==
    CHOOSE j \in SlotIdx :
        ~softPWM[j].enabled /\ \A i \in 0 .. (j - 1) : softPWM[i].enabled
C9_FailsWhenFull ==
    [][(step'.op = "setPWM" /\ step'.duty # 0 /\ ~isHardwarePWMPin(step'.pin)) =>
        /\ ~step'.ret <=> C9_Full
        /\ step'.ret =>
              \E i \in 0 .. (softPWMCount' - 1) :
                  softPWM'[i].enabled /\ softPWM'[i].pin = step'.pin
        /\ (softPWMCount = MAX_SOFT_PWM /\ step'.pin \notin UsedPins
              /\ \E j \in SlotIdx : ~softPWM[j].enabled) =>
              /\ step'.ret
              /\ softPWMCount' = MAX_SOFT_PWM
              /\ softPWM'[C9_FirstDisabled].pin = step'.pin
              /\ softPWM'[C9_FirstDisabled].enabled
              /\ \A i \in SlotIdx \ {C9_FirstDisabled} : softPWM'[i] = softPWM[i]]_vars
\* The call for pin number MAX_SOFT_PWM+1 succeeds, after it had failed on
\* the full table and a channel was disabled.
C9_Witness ==
    /\ step.op = "setPWM" /\ step.ret /\ step.duty # 0
    /\ step.afterError = "table"
    /\ step.pin = NthSoft(MAX_SOFT_PWM + 1)
    /\ softPWMCount = MAX_SOFT_PWM

\* C10: in an iteration of loop() updateSoftPWM writes, for each enabled
\* channel in turn, LOW if the channel is on and now - lastToggle >= onTime,
\* else HIGH if it is off and now - lastToggle >= period, else nothing; the
\* first leaves lastToggle as it was, the second sets it to now.  With duty
\* cycle 128 and loop() running every millisecond the falling edge comes 10
\* ms after the rising edge and the rising edge 20 ms after the previous one.
C10_Falls(ch, t) == ch.enabled /\ ch.state /\ t - ch.lastToggle >= (20 * ch.dutyCycle) \div 255
C10_Rises(ch, t) == ch.enabled /\ ~ch.state /\ t - ch.lastToggle >= 20
RECURSIVE C10_Writes(_, _)
C10_Writes(i, t) ==
    IF i >= softPWMCount THEN <<>>
    ELSE (IF C10_Falls(softPWM[i], t) THEN <<WriteOp(softPWM[i].pin, LOW)>>
          ELSE IF C10_Rises(softPWM[i], t) THEN <<WriteOp(softPWM[i].pin, HIGH)>>
          ELSE <<>>) \o C10_Writes(i + 1, t)
C10_UpdateEdges ==
    [][step'.op = "loop" =>
        /\ step'.writes = C10_Writes(0, step'.t)
        /\ \A i \in 0 .. (softPWMCount - 1) :
            LET ch == softPWM[i]
                t == step'.t
            IN  /\ (C10_Falls(ch, t) /\ ch.dutyCycle = 128) => t = ch.lastToggle + 10
                /\ (C10_Rises(ch, t) /\ ch.dutyCycle = 128) => t = ch.lastToggle + 20
                /\ ~step'.dispatched =>
                      softPWM'[i] =
                          IF C10_Falls(ch, t) THEN [ch EXCEPT !.state = FALSE]
                          ELSE IF C10_Rises(ch, t)
                          THEN [ch EXCEPT !.state = TRUE, !.lastToggle = t]
                          ELSE ch]_vars
\* Rising edge, falling edge 10 ms later, rising edge 20 ms later.
C10_Witness ==
    /\ Len(hist.edges) = 3
    /\ hist.edges[1].val = HIGH /\ hist.edges[2].val = LOW /\ hist.edges[3].val = HIGH
    /\ hist.edges[2].t = hist.edges[1].t + 10
    /\ hist.edges[3].t = hist.edges[1].t + 20
    /\ \E i \in 0 .. (softPWMCount - 1) :
           softPWM[i].enabled /\ softPWM[i].dutyCycle = 128

\* The level a pin drives: LOW until something is written to it.
Level(po, p) == IF po[p][1] = "none" THEN LOW ELSE po[p][2]

\* C11: an analog-write that fails on the full table has no side effect: the
\* level of every pin, the requested one included, the channel table and the
\* channel count are as updateSoftPWM left them in that iteration.
C11_FailNoSideEffect ==
    [][(step'.op = "loop" /\ step'.dispatched /\ step'.hasError
          /\ step'.seenBuf[0] = CMD_ANALOGWRITE
          /\ ~readPin(step'.seenBuf[1]).error) =>
        LET u == updateSoftPWM(softPWM, softPWMCount, pinOut, step'.t)
        IN  /\ softPWM' = u.tbl
            /\ softPWMCount' = softPWMCount
            /\ \A p \in PhysPins : Level(pinOut', p) = Level(u.po, p)]_vars

\* C12: an analog-write of duty cycle 0 to a pin without hardware PWM that
\* has an enabled channel succeeds and leaves no enabled channel for the pin
\* (so updateSoftPWM has nothing left to toggle the pin with).
C12_StopDisables ==
    [][(step'.op = "loop" /\ step'.dispatched
          /\ step'.seenBuf[0] = CMD_ANALOGWRITE /\ step'.seenBuf[2] = 0
          /\ ~readPin(step'.seenBuf[1]).error
          /\ ~isHardwarePWMPin(readPin(step'.seenBuf[1]).pin)
          /\ EnabledFor(readPin(step'.seenBuf[1]).pin) # {}) =>
        /\ ~step'.hasError
        /\ \A i \in 0 .. (softPWMCount' - 1) :
               ~(softPWM'[i].enabled
                 /\ softPWM'[i].pin = readPin(step'.seenBuf[1]).pin)]_vars

\* C13 as claimed: bytes that are available while the buffer holds
\* BUFFER_SIZE bytes are dropped, so the next iteration of loop() has
\* nothing of them to append.
C13_Dropped ==
    [][(step.op = "loop" /\ step.seenLen = BUFFER_SIZE /\ serialRx # <<>>
          /\ step'.op = "loop") =>
        step'.seenLen = bufferIndex]_vars
\* C13 as amended: the serial drain appends the first bytes of the receive
\* queue, as many as the buffer has room for, in order; the bytes beyond
\* stay in the receive queue, in order, for the next iterations.
C13_Kept ==
    [][step'.op = "loop" =>
        LET n == Min(Len(serialRx), BUFFER_SIZE - bufferIndex)
        IN  /\ step'.seenLen = bufferIndex + n
            /\ \A i \in 0 .. (bufferIndex - 1) : step'.seenBuf[i] = commandBuffer[i]
            /\ \A i \in 0 .. (n - 1) : step'.seenBuf[bufferIndex + i] = serialRx[i + 1]
            /\ ~step'.restarted =>
                  serialRx' = SubSeq(serialRx, n + 1, Len(serialRx))]_vars
\* The drain filled the buffer and left bytes in the receive queue.
C13_Witness ==
    step.op = "loop" /\ step.seenLen = BUFFER_SIZE /\ serialRx # <<>>

\* C14: dispatching reset writes exactly one SUCCESS_CODE and restarts the
\* firmware: nothing more is written, the buffer is not compacted but empty
\* (the bytes behind the opcode are gone) and the software-PWM table is
\* empty with channel count 0, as after setup().
C14_Reset ==
    (Dispatched /\ Opcode = CMD_RESET) =>
        /\ step.out = <<SUCCESS_CODE>>
        /\ step.restarted
        /\ bufferIndex = 0
        /\ commandBuffer = ZeroBuffer
        /\ softPWM = ZeroTable
        /\ softPWMCount = 0
\* Reset dispatched with bytes buffered behind it and a channel enabled.
C14_Witness ==
    /\ Dispatched /\ Opcode = CMD_RESET /\ step.seenLen > 1
    /\ bufferIndex = 0 /\ softPWMCount = 0
    /\ pinOut[NthSoft(1)][1] = "digital"

\* C15: an iteration of loop() that finds an opcode with fewer operand bytes
\* than it requires in the buffer and nothing on the serial line dispatches
\* no command, writes no byte and leaves the buffer contents and length as
\* they were (so the same holds for the next iteration, without end), while
\* updateSoftPWM has run: each enabled channel that is due has toggled.
C15_Stall ==
    [][(step'.op = "loop" /\ serialRx = <<>>
          /\ bufferIndex >= 1 /\ bufferIndex <= OperandCount(commandBuffer[0])) =>
        /\ ~step'.dispatched
        /\ step'.out = <<>>
        /\ commandBuffer' = commandBuffer
        /\ bufferIndex' = bufferIndex
        /\ serialRx' = <<>>
        /\ step'.writes = C10_Writes(0, step'.t)
        /\ \A i \in 0 .. (softPWMCount - 1) :
               (softPWM[i].enabled /\ ~softPWM[i].state
                  /\ step'.t - softPWM[i].lastToggle >= period) =>
               /\ softPWM'[i].state
               /\ pinOut'[softPWM[i].pin] = <<"digital", HIGH>>]_vars
\* An iteration on a stalled buffer in which updateSoftPWM toggled a pin.
C15_Witness ==
    /\ step.op = "loop" /\ ~step.dispatched /\ step.out = <<>>
    /\ Opcode = CMD_ANALOGWRITE /\ step.seenLen = 2 /\ bufferIndex = 2
    /\ serialRx = <<>> /\ step.writes # <<>>

\* C16: dispatching an opcode outside 0..7 ends in error (ERROR_CODE is the
\* response), makes no pin operation, leaves the software-PWM table, the
\* pins and the pin modes as updateSoftPWM left them, and takes exactly one
\* byte off the buffer, whatever byte is in buffer position 1.
C16_UnknownOpcode ==
    [][(step'.op = "loop" /\ step'.dispatched /\ step'.seenBuf[0] \notin 0 .. 7) =>
        LET u == updateSoftPWM(softPWM, softPWMCount, pinOut, step'.t)
        IN  /\ step'.hasError
            /\ step'.out = <<ERROR_CODE>>
            /\ step'.ops = <<>>
            /\ softPWM' = u.tbl
            /\ softPWMCount' = softPWMCount
            /\ pinOut' = u.po
            /\ pinModeReg' = pinModeReg
            /\ bufferIndex' = step'.seenLen - 1
            /\ \A i \in 0 .. (bufferIndex' - 1) :
                   commandBuffer'[i] = step'.seenBuf[i + 1]]_vars
\* An unknown opcode dispatched alone with a stale pin index out of range
\* in position 1.
C16_Witness ==
    /\ Dispatched /\ Opcode \notin 0 .. 7 /\ step.seenLen = 1
    /\ step.seenBuf[1] >= TOTAL_PINS
\* An unknown opcode dispatched with the opcode of the next command, a valid
\* pin index, in position 1.
C16_WitnessNext ==
    /\ Dispatched /\ Opcode \notin 0 .. 7 /\ step.seenLen = 2
    /\ step.seenBuf[1] < TOTAL_PINS /\ bufferIndex = 1

\* C17: the software-PWM table holds at most one enabled channel for each
\* physical pin.
C17_OneChannelPerPin ==
    \A i, j \in 0 .. (softPWMCount - 1) :
        (softPWM[i].enabled /\ softPWM[j].enabled
           /\ softPWM[i].pin = softPWM[j].pin) => i = j

\* The left-to-right parse of a byte stream by the operand-count table: the
\* complete commands, opcode followed by operands.
RECURSIVE Parse(_)
Parse(stream) ==
    IF stream = <<>> THEN <<>>
    ELSE LET n == 1 + OperandCount(stream[1])
         IN  IF Len(stream) < n THEN <<>>
             ELSE <<SubSeq(stream, 1, n)>> \o Parse(SubSeq(stream, n + 1, Len(stream)))
RECURSIVE Flatten(_)
Flatten(cmds) == IF cmds = <<>> THEN <<>> ELSE Head(cmds) \o Flatten(Tail(cmds))
Buffered(buf, idx) == [k \in 1 .. idx |-> buf[k - 1]]

\* C18: for a byte stream without reset, however its arrival is split over
\* the iterations of loop(), the commands dispatched so far are the first
\* commands of the left-to-right parse of the stream by the operand-count
\* table, the bytes not yet dispatched are in the buffer and the receive
\* queue in stream order, and an iteration dispatches one command at most.
C18_ParseOfStream ==
    [][/\ Len(hist'.cmds) <= Len(Parse(hist'.stream))
       /\ hist'.cmds = SubSeq(Parse(hist'.stream), 1, Len(hist'.cmds))
       /\ Flatten(hist'.cmds) \o Buffered(commandBuffer', bufferIndex') \o serialRx'
             = hist'.stream
       /\ Len(hist'.cmds) <= Len(hist.cmds) + 1]_vars
\* Every command of a stream of three commands is dispatched, the last one, of
\* three bytes, after its bytes were read in different iterations.
C18_Witness ==
    /\ hist.split /\ Len(hist.cmds) = 3 /\ hist.cmds = Parse(hist.stream)
    /\ Len(hist.cmds[3]) = 3 /\ Flatten(hist.cmds) = hist.stream

\* Nothing is left to do: every byte sent has been read into the buffer and
\* every complete command of the stream has been dispatched.
Settled == serialRx = <<>> /\ Len(hist.cmds) = Len(Parse(hist.stream))

C20_CountersInBounds ==
    [][/\ bufferIndex' \in 0 .. BUFFER_SIZE
       /\ softPWMCount' \in 0 .. MAX_SOFT_PWM
       /\ step'.op = "loop" =>
              /\ step'.seenLen \in 0 .. BUFFER_SIZE
              /\ step'.dispatched => 1 + OperandCount(step'.seenBuf[0]) <= step'.seenLen
       /\ softPWMCount' < softPWMCount => (step'.op = "loop" /\ step'.restarted)]_vars
\* Buffer and channel table both at capacity, bytes waiting on the serial
\* line.
C20_Witness ==
    /\ step.op = "loop" /\ step.seenLen = BUFFER_SIZE /\ serialRx # <<>>
    /\ softPWMCount = MAX_SOFT_PWM

====
